---- MODULE Spec2Model ----
(***************************************************************************)
(* Model of the doctor-patient queue backend (src/run.py): the three       *)
(* tables (User, Queue, Consultation), the request handlers and the two    *)
(* helpers sort_queue and estimate_wait_time.                              *)
(*                                                                         *)
(* Time is in whole seconds.  datetime.utcnow() is a reading of a clock    *)
(* that never runs backwards; two readings may be equal.                   *)
(* Display-only columns (first_name, last_name, specialty) are left out.   *)
(***************************************************************************)
EXTENDS Integers, Sequences, FiniteSets, TLC

VARIABLES users, queue, consultations, clock, inflight, response

vars == <<users, queue, consultations, clock, inflight, response>>

(***************************************************************************)
(* Bounds of the model and constants of the program                        *)
(***************************************************************************)
MaxConsultations == 2
MaxInflight == 2
MaxHistory == 7
MaxWaiting == 7
SecondsPerDay == 86400
SecondsPerMinute == 60
DefaultWait == 15
SignificandBits == 53
LimbBits == 14
FractionLimbs == 5

Emails == {"a@x", "b@x"}
Passwords == {"pw1", "pw2"}
Roles == {"patient", "doctor"}
Missing == "<missing>"
\* NULL in an integer column
None == -1
UnknownUserIds == {0}
DoctorIdInputs == {1, 2}
\* the consultation lengths, in minutes, of the histories the wait-time
\* estimate is tried on
DurationChoices == {8, 9, 13}
\* the instants at which the model reads the clock
Times == {0, 70, SecondsPerDay, SecondsPerDay + 70}

(***************************************************************************)
(* Generic helpers                                                         *)
(***************************************************************************)
Max(S) == CHOOSE m \in S : \A x \in S : x <= m

\* sum() over the duration_minutes of a set of rows
RECURSIVE SumDurations(_)
SumDurations(S) ==
    IF S = {} THEN 0
    ELSE LET c == CHOOSE x \in S : TRUE
         IN  c.duration_minutes + SumDurations(S \ {c})

BoolInt(b) == IF b THEN 1 ELSE 0

\* Python's tuple comparison of two-element keys
KeyLess(k1, k2) == k1[1] < k2[1] \/ (k1[1] = k2[1] /\ k1[2] < k2[2])

\* The sort keys of the program
JoinedAtKey(x) == <<0, x.joined_at>>
\* the listing key without the negation of is_emergency
ListingKeyNotNegated(x) == <<BoolInt(x.is_emergency), x.joined_at>>

ListingKey(x) == <<BoolInt(~x.is_emergency), x.joined_at>>
SortQueueKey(x) == <<BoolInt(x.is_emergency), x.joined_at>>

KeyOf(kind, x) ==
    CASE kind = "joined_at" -> JoinedAtKey(x)
      [] kind = "listing" -> ListingKey(x)
      [] kind = "sort_queue" -> SortQueueKey(x)

\* Python's sorted(): a stable sort, rows with equal keys keep their order
RECURSIVE InsertSorted(_, _, _)
InsertSorted(acc, x, kind) ==
    IF acc = <<>> THEN <<x>>
    ELSE IF KeyLess(KeyOf(kind, x), KeyOf(kind, Head(acc)))
         THEN <<x>> \o acc
         ELSE <<Head(acc)>> \o InsertSorted(Tail(acc), x, kind)

RECURSIVE SortedFrom(_, _, _)
SortedFrom(acc, rest, kind) ==
    IF rest = <<>> THEN acc
    ELSE SortedFrom(InsertSorted(acc, Head(rest), kind), Tail(rest), kind)

Sorted(list, kind) == SortedFrom(<<>>, list, kind)

\* .all() of a query without ORDER BY: the rows of S in an order the store
\* chooses
RECURSIVE AllOrders(_)
AllOrders(S) ==
    IF S = {} THEN {<<>>}
    ELSE UNION {{<<e>> \o rest : rest \in AllOrders(S \ {e})} : e \in S}

\* .order_by(key).all(): every order of the rows of S that is ascending in
\* the key; the order of rows with equal keys is the store's choice
RECURSIVE OrderedBy(_, _)
OrderedBy(S, kind) ==
    IF S = {} THEN {<<>>}
    ELSE UNION {{<<e>> \o rest : rest \in OrderedBy(S \ {e}, kind)} :
                e \in {x \in S : \A y \in S :
                                   ~KeyLess(KeyOf(kind, y), KeyOf(kind, x))}}

(***************************************************************************)
(* Python floats: IEEE 754 binary64, round to nearest, ties to even.       *)
(* A positive float is [m |-> its 53 significand bits, first bit 1,        *)
(* e |-> exponent]: the number (m read in binary) * 2^e.  Zero is          *)
(* [m |-> <<>>, e |-> 0].                                                  *)
(***************************************************************************)
\* the number of binary digits of n, 0 <= n < 2^31
BitLength(n) == IF n = 0 THEN 0 ELSE CHOOSE k \in 1..31 : n \div (2 ^ (k - 1)) = 1

\* v in w binary digits, first digit first
PadBits(v, w) == [i \in 1..w |-> (v \div (2 ^ (w - i))) % 2]

BitsOf(n) == PadBits(n, BitLength(n))

RECURSIVE FromBits(_)
FromBits(bits) ==
    IF bits = <<>> THEN 0
    ELSE 2 * FromBits(SubSeq(bits, 1, Len(bits) - 1)) + bits[Len(bits)]

Zeros(n) == [i \in 1..n |-> 0]

\* bits + 1, one bit longer when every bit is 1
Increment(bits) ==
    IF \A i \in 1..Len(bits) : bits[i] = 1
    THEN <<1>> \o Zeros(Len(bits))
    ELSE LET z == CHOOSE i \in 1..Len(bits) :
                      bits[i] = 0 /\ \A j \in (i + 1)..Len(bits) : bits[j] = 1
         IN  [i \in 1..Len(bits) |->
                 IF i < z THEN bits[i] ELSE IF i = z THEN 1 ELSE 0]

\* the nearest float to (bits read in binary, plus a fraction below one unit
\* that is non-zero iff sticky) * 2^e; bits starts with 1 and is longer than
\* SignificandBits
RoundToFloat(bits, sticky, e) ==
    LET kept == SubSeq(bits, 1, SignificandBits)
        guard == bits[SignificandBits + 1]
        rest == sticky \/ \E i \in (SignificandBits + 2)..Len(bits) : bits[i] = 1
        up == guard = 1 /\ (rest \/ kept[SignificandBits] = 1)
        rounded == IF up THEN Increment(kept) ELSE kept
        dropped == Len(bits) - SignificandBits
    IN  IF Len(rounded) > SignificandBits
        THEN [m |-> SubSeq(rounded, 1, SignificandBits), e |-> e + dropped + 1]
        ELSE [m |-> rounded, e |-> e + dropped]

\* long division in base 2^LimbBits: what is left of r / d after i digits
\* behind the point, as a remainder below d (0 <= r < d)
RECURSIVE DivRemainder(_, _, _)
DivRemainder(r, d, i) ==
    IF i = 0 THEN r ELSE (DivRemainder(r, d, i - 1) * (2 ^ LimbBits)) % d

\* the first FractionLimbs * LimbBits binary digits of r / d behind the point
FractionBits(r, d) ==
    [j \in 1..(FractionLimbs * LimbBits) |->
        LET digit == (DivRemainder(r, d, (j - 1) \div LimbBits) * (2 ^ LimbBits))
                         \div d
        IN  (digit \div (2 ^ (LimbBits - 1 - ((j - 1) % LimbBits)))) % 2]

\* a / b of two ints, 0 <= a and 0 < b (true division, correctly rounded)
FloatDiv(a, b) ==
    IF a = 0 THEN [m |-> <<>>, e |-> 0]
    ELSE LET all == BitsOf(a \div b) \o FractionBits(a % b, b)
             first == CHOOSE i \in 1..Len(all) :
                          all[i] = 1 /\ \A j \in 1..(i - 1) : all[j] = 0
         IN  RoundToFloat(SubSeq(all, first, Len(all)),
                          DivRemainder(a % b, b, FractionLimbs) # 0,
                          0 - FractionLimbs * LimbBits)

\* the limb-th group of LimbBits digits of a significand that is padded on
\* the left to four groups, as an int
Limb(m, limb) ==
    LET padded == Zeros(4 * LimbBits - Len(m)) \o m
    IN  FromBits(SubSeq(padded, LimbBits * (limb - 1) + 1, LimbBits * limb))

\* n * x of an int n >= 0 and a float x >= 0: the product limb by limb with
\* carries, then rounded
FloatMulInt(n, x) ==
    IF n = 0 \/ x.m = <<>> THEN [m |-> <<>>, e |-> 0]
    ELSE LET t4 == n * Limb(x.m, 4)
             t3 == n * Limb(x.m, 3) + t4 \div (2 ^ LimbBits)
             t2 == n * Limb(x.m, 2) + t3 \div (2 ^ LimbBits)
             t1 == n * Limb(x.m, 1) + t2 \div (2 ^ LimbBits)
             product == BitsOf(t1) \o PadBits(t2 % (2 ^ LimbBits), LimbBits)
                                   \o PadBits(t3 % (2 ^ LimbBits), LimbBits)
                                   \o PadBits(t4 % (2 ^ LimbBits), LimbBits)
         IN  RoundToFloat(product \o <<0, 0>>, FALSE, x.e - 2)

\* int(x) of a float x >= 0 below 2^31: the fraction is cut off
FloatToInt(x) ==
    IF x.m = <<>> THEN 0
    ELSE IF x.e >= 0 THEN FromBits(x.m \o Zeros(x.e))
    ELSE IF 0 - x.e >= Len(x.m) THEN 0
    ELSE FromBits(SubSeq(x.m, 1, Len(x.m) + x.e))

(***************************************************************************)
(* The store                                                               *)
(***************************************************************************)
\* uuid4 (User.id default): an id no stored user has
NewUserId == Cardinality(users) + 1

\* INTEGER PRIMARY KEY of SQLite: one more than the largest id stored
NextRowId(table) == IF table = {} THEN 1 ELSE Max({r.id : r \in table}) + 1

\* datetime.utcnow(): the readings the clock can give next
UtcNow == {t \in Times : t >= clock}

Init ==
    /\ users = {}
    /\ queue = {}
    /\ consultations = {}
    /\ clock = 0
    /\ inflight = {}
    /\ response = [op |-> "none"]

(***************************************************************************)
(* register                                                                *)
(***************************************************************************)
Register(email, password, role) ==
    /\ IF Missing \in {email, password, role}
       THEN /\ response' = [op |-> "register", status |-> 400]
            /\ users' = users
       ELSE IF \E u \in users : u.email = email
       THEN \* unique=True on email: the commit raises, nothing is stored
            /\ response' = [op |-> "register", status |-> 500]
            /\ users' = users
       ELSE /\ users' = users \cup {[id |-> NewUserId, email |-> email,
                                     password |-> password, role |-> role]}
            /\ response' = [op |-> "register", status |-> 201,
                            email |-> email, password |-> password,
                            user_id |-> NewUserId]
    /\ UNCHANGED <<queue, consultations, clock, inflight>>

(***************************************************************************)
(* login                                                                   *)
(***************************************************************************)
\* the login query matching on the email alone
LoginMatchesEmailOnly(email, password) ==
    {u \in users : u.email = email}

\* User.query.filter_by(email=..., password=...)
LoginMatches(email, password) ==
    {u \in users : u.email = email /\ u.password = password}

Login(email, password) ==
    /\ IF LoginMatches(email, password) # {}
       THEN \E user \in LoginMatches(email, password) :
                response' = [op |-> "login", status |-> 200,
                             email |-> email, password |-> password,
                             user_id |-> user.id, role |-> user.role]
       ELSE response' = [op |-> "login", status |-> 401,
                         email |-> email, password |-> password]
    /\ UNCHANGED <<users, queue, consultations, clock, inflight>>

(***************************************************************************)
(* join_queue                                                              *)
(***************************************************************************)
\* Queue.query.filter_by(user_id=user_id)
ExistingQueue(user_id) == {e \in queue : e.user_id = user_id}

\* Queue.query.filter_by(doctor_id=doctor_id)
DoctorEntries(doctor_id) == {e \in queue : e.doctor_id = doctor_id}

\* the ids a join request can carry: user_id is not checked against User
UserIdInputs == {u.id : u \in users} \cup UnknownUserIds

\* db.session.add(Queue(...)); db.session.commit(), joined_at = utcnow()
InsertEntry(user_id, doctor_id, is_emergency) ==
    \E now \in UtcNow :
        /\ queue' = queue \cup {[id |-> NextRowId(queue), user_id |-> user_id,
                                 doctor_id |-> doctor_id, joined_at |-> now,
                                 is_emergency |-> is_emergency]}
        /\ clock' = now

\* join_queue rejecting only a second entry for the same doctor
JoinQueueSameDoctorOnly(user_id, doctor_id, is_emergency) ==
    /\ IF \E e \in ExistingQueue(user_id) : e.doctor_id = doctor_id
       THEN /\ response' = [op |-> "join", status |-> 409, user_id |-> user_id]
            /\ UNCHANGED <<queue, clock>>
       ELSE /\ InsertEntry(user_id, doctor_id, is_emergency)
            /\ response' = [op |-> "join", status |-> 201, user_id |-> user_id]
    /\ UNCHANGED <<users, consultations, inflight>>

\* the handler run from its first line to its return with no other request
\* in between
JoinQueue(user_id, doctor_id, is_emergency) ==
    /\ IF ExistingQueue(user_id) # {}
       THEN /\ response' = [op |-> "join", status |-> 409, user_id |-> user_id]
            /\ UNCHANGED <<queue, clock>>
       ELSE /\ InsertEntry(user_id, doctor_id, is_emergency)
            /\ response' = [op |-> "join", status |-> 201, user_id |-> user_id]
    /\ UNCHANGED <<users, consultations, inflight>>

\* Two requests served at once: the existence check of one (line 152) and
\* its insert (lines 156-158) are separate steps, and another request may
\* run between them.  inflight holds the requests that passed the check.
FreeSlots == (1..MaxInflight) \ {r.slot : r \in inflight}

JoinCheck(user_id, doctor_id, is_emergency) ==
    /\ IF ExistingQueue(user_id) # {}
       THEN /\ response' = [op |-> "join", status |-> 409, user_id |-> user_id]
            /\ inflight' = inflight
       ELSE /\ FreeSlots # {}
            /\ inflight' = inflight \cup
                   {[slot |-> CHOOSE n \in FreeSlots : TRUE,
                     user_id |-> user_id, doctor_id |-> doctor_id,
                     is_emergency |-> is_emergency]}
            /\ response' = response
    /\ UNCHANGED <<users, queue, consultations, clock>>

JoinInsert(request) ==
    /\ InsertEntry(request.user_id, request.doctor_id, request.is_emergency)
    /\ inflight' = inflight \ {request}
    /\ response' = [op |-> "join", status |-> 201,
                    user_id |-> request.user_id]
    /\ UNCHANGED <<users, consultations>>

(***************************************************************************)
(* sort_queue                                                              *)
(***************************************************************************)
sort_queue(queue_list) == Sorted(queue_list, "sort_queue")

(***************************************************************************)
(* estimate_wait_time                                                      *)
(***************************************************************************)
\* db.session.query(Consultation.duration_minutes).filter_by(doctor_id=...)
HistoricalDurations(doctor_id) ==
    {c \in consultations : c.doctor_id = doctor_id}

estimate_wait_time(doctor_id) ==
    LET historical == HistoricalDurations(doctor_id)
        durations == {c \in historical : c.duration_minutes # None}
        avg_duration == FloatDiv(SumDurations(durations), Cardinality(durations))
        queue_length == Cardinality(DoctorEntries(doctor_id))
        estimated_time == FloatMulInt(queue_length, avg_duration)
    IN  IF historical = {} THEN DefaultWait
        ELSE IF durations = {} THEN DefaultWait
        ELSE FloatToInt(estimated_time)

(***************************************************************************)
(* get_queue_position                                                      *)
(***************************************************************************)
IndexOf(seq, x) == CHOOSE i \in 1..Len(seq) : seq[i] = x

\* get_queue_position ranking in the order of the doctor's listing
GetQueuePositionListingOrder(user_id) ==
    /\ IF ExistingQueue(user_id) = {}
       THEN response' = [op |-> "position", status |-> 404, user_id |-> user_id]
       ELSE \E queue_entry \in ExistingQueue(user_id) :
            \E doctor_queue \in OrderedBy(DoctorEntries(queue_entry.doctor_id),
                                          "listing") :
                response' = [op |-> "position", status |-> 200,
                             user_id |-> user_id,
                             position |-> IndexOf(doctor_queue, queue_entry),
                             doctor_id |-> queue_entry.doctor_id,
                             estimated_wait_minutes |->
                                 estimate_wait_time(queue_entry.doctor_id)]
    /\ UNCHANGED <<users, queue, consultations, clock, inflight>>

GetQueuePosition(user_id) ==
    /\ IF ExistingQueue(user_id) = {}
       THEN response' = [op |-> "position", status |-> 404, user_id |-> user_id]
       ELSE \E queue_entry \in ExistingQueue(user_id) :
            \E doctor_queue \in OrderedBy(DoctorEntries(queue_entry.doctor_id),
                                          "joined_at") :
                response' = [op |-> "position", status |-> 200,
                             user_id |-> user_id,
                             position |-> IndexOf(doctor_queue, queue_entry),
                             doctor_id |-> queue_entry.doctor_id,
                             estimated_wait_minutes |->
                                 estimate_wait_time(queue_entry.doctor_id)]
    /\ UNCHANGED <<users, queue, consultations, clock, inflight>>

(***************************************************************************)
(* get_doctor_queue                                                        *)
(***************************************************************************)
\* User.query.get(entry.user_id) finds a row
UserExists(user_id) == \E u \in users : u.id = user_id

PatientRow(entry) ==
    [queue_id |-> entry.id, user_id |-> entry.user_id,
     joined_at |-> entry.joined_at, is_emergency |-> entry.is_emergency]

RECURSIVE Patients(_)
Patients(sorted_entries) ==
    IF sorted_entries = <<>> THEN <<>>
    ELSE IF UserExists(Head(sorted_entries).user_id)
         THEN <<PatientRow(Head(sorted_entries))>> \o Patients(Tail(sorted_entries))
         ELSE Patients(Tail(sorted_entries))

GetDoctorQueue(doctor_id) ==
    /\ \E queue_entries \in AllOrders(DoctorEntries(doctor_id)) :
           LET sorted_entries == Sorted(queue_entries, "listing")
           IN  response' = [op |-> "doctor_queue", status |-> 200,
                            doctor_id |-> doctor_id,
                            body |-> Patients(sorted_entries)]
    /\ UNCHANGED <<users, queue, consultations, clock, inflight>>

(***************************************************************************)
(* complete_consultation                                                   *)
(***************************************************************************)
\* timedelta.seconds of a non-negative timedelta: the seconds within the
\* last day, the days are a separate field
TimedeltaSeconds(delta) == delta % SecondsPerDay

\* the stored duration without the minimum of one minute
ClampedDurationUnclamped(duration) == duration

\* duration if duration > 0 else 1
ClampedDuration(duration) == IF duration > 0 THEN duration ELSE 1

Duration(now, joined_at) == TimedeltaSeconds(now - joined_at) \div SecondsPerMinute

\* the ids a complete request can carry: a stored one or one that is not
QueueIdInputs == {e.id : e \in queue} \cup {NextRowId(queue)}

CompleteConsultation(queue_id) ==
    /\ IF ~\E e \in queue : e.id = queue_id
       THEN /\ response' = [op |-> "complete", status |-> 404,
                            queue_id |-> queue_id]
            /\ UNCHANGED <<queue, consultations, clock>>
       ELSE \E queue_entry \in {e \in queue : e.id = queue_id} :
            \E now \in UtcNow :
            LET duration == Duration(now, queue_entry.joined_at)
            IN  /\ Cardinality(consultations) < MaxConsultations
                /\ consultations' = consultations \cup
                      {[id |-> NextRowId(consultations),
                        patient_id |-> queue_entry.user_id,
                        doctor_id |-> queue_entry.doctor_id,
                        start_time |-> queue_entry.joined_at,
                        end_time |-> now,
                        duration_minutes |-> ClampedDuration(duration)]}
                /\ queue' = queue \ {queue_entry}
                /\ clock' = now
                /\ response' = [op |-> "complete", status |-> 200,
                                queue_id |-> queue_id]
    /\ UNCHANGED <<users, inflight>>

\* registration and login
NextAuth ==
    \/ \E e \in Emails \cup {Missing}, p \in Passwords \cup {Missing},
          r \in Roles \cup {Missing} : Register(e, p, r)
    \/ \E e \in Emails, p \in Passwords : Login(e, p)

SpecAuth == Init /\ [][NextAuth]_vars

\* patients register, join queues and the queues are read
Next ==
    \/ \E e \in Emails : Register(e, "pw1", "patient")
    \/ \E u \in UserIdInputs, d \in DoctorIdInputs, em \in BOOLEAN :
          JoinQueue(u, d, em)
    \/ \E u \in UserIdInputs : GetQueuePosition(u)
    \/ \E d \in DoctorIdInputs : GetDoctorQueue(d)

Spec == Init /\ [][Next]_vars

\* patients join queues and consultations are completed
NextComplete ==
    \/ Register("a@x", "pw1", "patient")
    \/ \E u \in UserIdInputs, d \in DoctorIdInputs, em \in {FALSE} :
          JoinQueue(u, d, em)
    \/ \E q \in QueueIdInputs : CompleteConsultation(q)

SpecComplete == Init /\ [][NextComplete]_vars

\* join requests served concurrently
NextRace ==
    \/ \E u \in UserIdInputs, d \in DoctorIdInputs, em \in BOOLEAN :
          JoinCheck(u, d, em)
    \/ \E request \in inflight : JoinInsert(request)
    \/ \E q \in QueueIdInputs : CompleteConsultation(q)

SpecRace == Init /\ [][NextRace]_vars

\* three patients register and join queues, which are listed
NextTriage ==
    \/ \E e \in Emails \cup {"c@x"} : Register(e, "pw1", "patient")
    \/ \E u \in {x.id : x \in users}, d \in DoctorIdInputs, em \in BOOLEAN :
          JoinQueue(u, d, em)
    \/ \E d \in DoctorIdInputs : GetDoctorQueue(d)

SpecTriage == Init /\ [][NextTriage]_vars

\* The wait-time estimate on a doctor with a history: n patients joined the
\* queue of doctor 1 at time 0 and were completed one after the other,
\* durations[i] minutes after they joined; then q patients joined.
InitWait ==
    \E n \in 1..MaxHistory, q \in 0..MaxWaiting :
    \E durations \in [1..n -> DurationChoices] :
        /\ \A i \in 1..(n - 1) : durations[i] <= durations[i + 1]
        /\ users = {}
        /\ consultations =
              {[id |-> i, patient_id |-> i, doctor_id |-> 1, start_time |-> 0,
                end_time |-> durations[i] * SecondsPerMinute,
                duration_minutes |-> durations[i]] : i \in 1..n}
        /\ queue =
              {[id |-> j, user_id |-> n + j, doctor_id |-> 1,
                joined_at |-> durations[n] * SecondsPerMinute + j,
                is_emergency |-> FALSE] : j \in 1..q}
        /\ clock = durations[n] * SecondsPerMinute + q
        /\ inflight = {}
        /\ response = [op |-> "none"]

NextWait == \E e \in queue : GetQueuePosition(e.user_id)

SpecWait == InitWait /\ [][NextWait]_vars

(***************************************************************************)
(* Claims checked under Spec                                               *)
(***************************************************************************)
\* C2: a join request for a user who already has a queue entry, for any
\* doctor and any is_emergency, answers 409 and leaves the queue entries as
\* they are: nothing added, nothing modified.
C2_RejoinConflict ==
    [][\A u \in UserIdInputs, d \in DoctorIdInputs, em \in BOOLEAN :
         (response'.op = "join" /\ ExistingQueue(u) # {} /\ JoinQueue(u, d, em))
             => /\ response'.op = "join"
                /\ response'.status = 409
                /\ queue' = queue]_vars

\* C2 witness: a 409 was answered to a user who has a queue entry, with
\* another user's entry in the queue as well
C2_Witness ==
    /\ response.op = "join"
    /\ response.status = 409
    /\ ExistingQueue(response.user_id) # {}
    /\ Cardinality(queue) >= 2

\* emergency rows before the others, ascending joined_at within each group
EmergencyFirstThenJoinedAt(rows) ==
    \A i, j \in 1..Len(rows) :
        i < j => /\ rows[i].is_emergency \/ ~rows[j].is_emergency
                 /\ rows[i].is_emergency = rows[j].is_emergency
                        => rows[i].joined_at <= rows[j].joined_at

\* C4: the doctor-queue listing is ordered by (is_emergency descending,
\* joined_at ascending): every emergency row precedes every non-emergency
\* row and each group is in ascending joined_at order.
C4_ListingOrdered ==
    response.op = "doctor_queue" => EmergencyFirstThenJoinedAt(response.body)

\* C4 witness: entries 1, 2, 3 joined at t1 < t2 < t3 with is_emergency
\* FALSE, TRUE, FALSE and are listed as entry 2, entry 1, entry 3
C4_Witness ==
    /\ response.op = "doctor_queue"
    /\ Len(response.body) = 3
    /\ \E e1, e2, e3 \in queue :
           /\ e1.joined_at < e2.joined_at
           /\ e2.joined_at < e3.joined_at
           /\ ~e1.is_emergency /\ e2.is_emergency /\ ~e3.is_emergency
           /\ response.body = <<PatientRow(e2), PatientRow(e1), PatientRow(e3)>>

\* C5: the doctor-queue listing holds exactly the stored queue entries of
\* that doctor: none omitted, none of another doctor.
C5_ListingComplete ==
    [][\A d \in DoctorIdInputs :
         (response'.op = "doctor_queue" /\ GetDoctorQueue(d))
             => {response'.body[i].queue_id : i \in 1..Len(response'.body)}
                    = {e.id : e \in DoctorEntries(d)}]_vars

\* the number of entries of the doctor of entry e that joined before e
EarlierCount(e) ==
    Cardinality({x \in DoctorEntries(e.doctor_id) : x.joined_at < e.joined_at})

\* the number of entries of the doctor of entry e that joined when e did,
\* e among them
SameTimeCount(e) ==
    Cardinality({x \in DoctorEntries(e.doctor_id) : x.joined_at = e.joined_at})

\* C8 as stated: the position of a queued user is 1 plus the number of that
\* doctor's entries with an earlier joined_at; a user with no queue entry
\* gets 404.
C8_PositionIsEarlierPlusOne ==
    [][\A u \in UserIdInputs :
         (response'.op = "position" /\ GetQueuePosition(u))
             => IF ExistingQueue(u) = {}
                THEN response'.status = 404
                ELSE /\ response'.status = 200
                     /\ \E e \in ExistingQueue(u) :
                            response'.position = 1 + EarlierCount(e)]_vars

\* C8 amended: the position of a queued user is a rank by joined_at alone:
\* it is above the number of that doctor's entries that joined earlier and
\* at most that number plus the number of entries that joined at the same
\* instant (the entry itself included), so it is exactly 1 plus the number of
\* earlier entries when no other entry of the doctor has the same joined_at,
\* and it lies between 1 and the doctor's queue length whatever the
\* emergency flags are; a user with no queue entry gets 404.
C8_PositionIsChronologicalRank ==
    [][\A u \in UserIdInputs :
         (response'.op = "position" /\ GetQueuePosition(u))
             => IF ExistingQueue(u) = {}
                THEN response'.status = 404
                ELSE /\ response'.status = 200
                     /\ \E e \in ExistingQueue(u) :
                          /\ response'.doctor_id = e.doctor_id
                          /\ response'.position >= 1 + EarlierCount(e)
                          /\ response'.position
                                 <= EarlierCount(e) + SameTimeCount(e)
                          /\ response'.position >= 1
                          /\ response'.position
                                 <= Cardinality(DoctorEntries(e.doctor_id))]_vars

\* C8 witness: a position of 1 is reported to a non-emergency patient whose
\* doctor has an emergency entry that joined later
C8_Witness ==
    /\ response.op = "position"
    /\ response.status = 200
    /\ response.position = 1
    /\ \E e \in ExistingQueue(response.user_id) :
           /\ ~e.is_emergency
           /\ \E x \in DoctorEntries(e.doctor_id) :
                  x.is_emergency /\ x.joined_at > e.joined_at

\* C10: sort_queue puts emergency entries at the top, in ascending joined_at
\* order within each group, and orders the entries as the doctor-queue
\* listing orders them.
C10_SortQueueEmergencyFirst ==
    \A d \in DoctorIdInputs :
        \A queue_list \in AllOrders(DoctorEntries(d)) :
            /\ EmergencyFirstThenJoinedAt(sort_queue(queue_list))
            /\ sort_queue(queue_list) = Sorted(queue_list, "listing")

(***************************************************************************)
(* Claim checked under SpecRace                                            *)
(***************************************************************************)
\* C1: in every reachable state, also when the existence check and the
\* insert of two join requests interleave, each user_id has at most one
\* queue entry.
C1_AtMostOneEntryPerUser ==
    \A u \in UserIdInputs : Cardinality(ExistingQueue(u)) <= 1

(***************************************************************************)
(* Claims checked under SpecComplete                                       *)
(***************************************************************************)
\* C3: a complete request for a stored queue entry answers 200, deletes that
\* entry and adds exactly one Consultation (patient_id and doctor_id of the
\* entry, start_time = its joined_at, duration_minutes >= 1), leaving every
\* other entry and consultation as it is; a complete request for an id that
\* is not stored answers 404 and changes nothing; and whatever the request,
\* the consultations added equal the entries deleted in number, and stored
\* consultations never change.
C3_CompleteOnce ==
    [][/\ \A q \in QueueIdInputs :
            (response'.op = "complete" /\ CompleteConsultation(q))
                => IF \E e \in queue : e.id = q
                   THEN \E e \in queue :
                        /\ e.id = q
                        /\ response'.status = 200
                        /\ queue' = queue \ {e}
                        /\ \E c \in consultations' \ consultations :
                             /\ consultations' = consultations \cup {c}
                             /\ c.patient_id = e.user_id
                             /\ c.doctor_id = e.doctor_id
                             /\ c.start_time = e.joined_at
                             /\ c.duration_minutes >= 1
                   ELSE /\ response'.status = 404
                        /\ queue' = queue
                        /\ consultations' = consultations
       /\ consultations \subseteq consultations'
       /\ Cardinality(consultations' \ consultations)
              = Cardinality(queue \ queue')
       /\ Cardinality(queue \ queue') <= 1]_vars

\* C3 witness: an entry was completed while another entry was queued, and a
\* consultation of under a minute elapsed is stored with duration 1
C3_Witness ==
    /\ response.op = "complete"
    /\ response.status = 200
    /\ queue # {}
    /\ \E c \in consultations :
           c.end_time - c.start_time < SecondsPerMinute /\ c.duration_minutes = 1

\* C6: the stored duration_minutes is max(1, floor(E / 60)), E the whole
\* seconds elapsed between the entry's joined_at and the completion time.
C6_DurationIsElapsedMinutes ==
    \A c \in consultations :
        c.duration_minutes
            = IF (c.end_time - c.start_time) \div SecondsPerMinute > 0
              THEN (c.end_time - c.start_time) \div SecondsPerMinute
              ELSE 1

(***************************************************************************)
(* Claim checked under SpecWait                                            *)
(***************************************************************************)
\* the mean of the doctor's non-null durations times the doctor's queue
\* entry count, cut to an integer; 15 without such durations
MeanTimesQueueLength(doctor_id) ==
    LET durations == {c \in consultations :
                        c.doctor_id = doctor_id /\ c.duration_minutes # None}
    IN  IF durations = {} THEN DefaultWait
        ELSE (SumDurations(durations) * Cardinality(DoctorEntries(doctor_id)))
                 \div Cardinality(durations)

\* C7: the wait-time estimate is 15 for a doctor without (non-null)
\* history, and otherwise the arithmetic mean of the doctor's non-null
\* durations multiplied by the doctor's queue entry count, truncated to an
\* integer.
C7_EstimateIsMeanTimesQueueLength ==
    (response.op = "position" /\ response.status = 200)
        => response.estimated_wait_minutes
               = MeanTimesQueueLength(response.doctor_id)

(***************************************************************************)
(* Claim checked under SpecAuth                                            *)
(***************************************************************************)
\* C9: a registration that answers 201 stores the user under the id it
\* returns, an id and an email no stored user has, and stored users never
\* change; a login with the email and password of a stored user answers
\* 200 with the id and the role of that user (the id issued at its
\* registration), any other login answers 401, and a login changes no
\* stored state.
C9_LoginReturnsRegisteredId ==
    [][/\ \A e \in Emails, p \in Passwords, r \in Roles :
            (response'.op = "register" /\ response'.status = 201
                 /\ Register(e, p, r))
                => /\ users' = users \cup {[id |-> response'.user_id, email |-> e,
                                            password |-> p, role |-> r]}
                   /\ \A u \in users : u.id # response'.user_id /\ u.email # e
       /\ \A e \in Emails, p \in Passwords :
            (response'.op = "login" /\ Login(e, p))
                => /\ UNCHANGED <<users, queue, consultations>>
                   /\ IF \E u \in users : u.email = e /\ u.password = p
                      THEN /\ response'.status = 200
                           /\ \A u \in users :
                                  (u.email = e /\ u.password = p)
                                      => /\ response'.user_id = u.id
                                         /\ response'.role = u.role
                      ELSE response'.status = 401
       /\ users \subseteq users']_vars

\* C9 witness: the user registered second logs in and gets the second id,
\* while the other user has another password
C9_Witness ==
    /\ response.op = "login"
    /\ response.status = 200
    /\ \E u, v \in users :
           /\ u.id = response.user_id
           /\ u.email = response.email
           /\ u.id = 2
           /\ v.id = 1
           /\ v.password # u.password
====
